---- MODULE Spec2Model ----
(***************************************************************************)
(* Model of src/main.py: the device lookup, the scheduling loop, run_util   *)
(* (the transient secret files), run_backup (the include / exclude walk,   *)
(* the batching, the report) and upload_files (the reconciliation of the   *)
(* tool's item records into the four counters).                            *)
(*                                                                         *)
(* Paths are sequences of name components (<<"a","f">> is /a/f, <<>> is /).*)
(* Time is counted in ticks of 300 s, the period of time.sleep(300).       *)
(* An optional value is <<>> (absent / None / unbound) or <<v>>.           *)
(***************************************************************************)
EXTENDS Integers, Sequences, FiniteSets, TLC

\* ---------------------------------------------------------------- bounds
NumBig      == 1001  \* regular files in the directory /big
MaxItems    == 2     \* item lines the tool prints during one run
MaxIncludes == 2     \* length of config['includes']
MaxExcludes == 1     \* length of config['excludes']
MaxTime     == 3     \* the clock stops advancing at this tick

\* ------------------------------------------------------ program constants
BatchSize == 1000

\* ------------------------------------------------------------- the state
VARIABLES
    pc,          \* position of the single thread of control
    tempfiles,   \* the transient files of run_util that exist at the moment
    cfg,         \* config.yaml as loaded at line 28, plus the resolve() flavour
    device_id,   \* <<>> until the device lookup of lines 85-91 succeeded
    devices,     \* history: the device listing the lookup went through
    lastrun,     \* content of the lastrun file: <<>> (no file) or <<tick>>
    leftover,    \* history: what the main loop had printed last, and the
                 \* considered counter, when the current run was started
    now,         \* the wall clock, in ticks
    console,     \* the last status line printed by the main loop
    removed,     \* directories deleted from the filesystem so far
    logfile,     \* lines written to the current run's log file
    logclosed,   \* TRUE when no log file is open
    files_considered_for_backup,
    files_backed_up_now,
    files_already_present,
    files_failed_to_backup,
    includes,    \* run_backup's work list (a stack, popped at the end)
    excludes,
    files,       \* the pending file queue
    include,     \* run_backup's local `include`: <<>> while unbound
    retpc,       \* where upload_files returns to
    listfile,    \* <<>> or <<batch>>: the list file handed to the tool
    items,       \* records of the response not processed yet
    done,        \* history: records of the response processed so far
    last_total_transfer_size,
    transfer_size,   \* <<>> or <<size derived for the last 100% record>>
    nitems,      \* item lines the tool has printed in this run
    quota,       \* <<>> or <<[used, total]>> in GB, once queried in this run
    mail,        \* <<>> or <<subject>> of the notification sent for this run
    emitted,     \* history: every path appended to files in this run
    batches      \* history: every batch passed to upload_files in this run

vars == <<pc, tempfiles, cfg, device_id, devices, lastrun, leftover, now, console, removed, logfile, logclosed,
          files_considered_for_backup, files_backed_up_now, files_already_present,
          files_failed_to_backup, includes, excludes, files, include, retpc,
          listfile, items, done, last_total_transfer_size, transfer_size, nitems,
          quota, mail, emitted, batches>>

counters == <<files_considered_for_backup, files_backed_up_now,
              files_already_present, files_failed_to_backup>>
walkvars == <<includes, excludes, files, include, emitted>>
uploadvars == <<listfile, items, done, last_total_transfer_size, transfer_size>>
procvars == <<cfg, device_id, devices, lastrun, leftover>>
reportvars == <<quota, mail>>

\* ------------------------------------------------------- the filesystem
\* /a            directory: s, l, d, br, f (in listing order)
\* /a/s          a socket
\* /a/l          symbolic link to /a/d
\* /a/d          directory: h
\* /a/d/h        regular file
\* /a/br         symbolic link to /a/gone, which does not exist
\* /a/f          regular file
\* /c            directory: e
\* /c/e          directory: up
\* /c/e/up       symbolic link to /c (an ancestor of the link)
\* /big          directory: NumBig regular files 1, 2, ...
BigNames == {ToString(i) : i \in 1..NumBig}

StaticDirs  == {<<>>, <<"a">>, <<"a", "d">>, <<"c">>, <<"c", "e">>, <<"big">>}
StaticFiles == {<<"a", "f">>, <<"a", "d", "h">>}
StaticLinks == {<<"a", "l">>, <<"a", "br">>, <<"c", "e", "up">>}

LinkTarget(p) ==
    CASE p = <<"a", "l">>  -> <<"a", "d">>
      [] p = <<"a", "br">> -> <<"a", "gone">>
      [] p = <<"c", "e", "up">> -> <<"c">>

StaticKind(p) ==
    CASE p \in StaticDirs  -> "dir"
      [] p \in StaticFiles -> "file"
      [] Len(p) = 2 /\ p[1] = "big" /\ p[2] \in BigNames -> "file"
      [] p \in StaticLinks -> "link"
      [] p = <<"a", "s">>  -> "special"
      [] OTHER             -> "none"

\* Directories the environment may delete while a backup runs.
Removable == {<<"a", "d">>}

Prefix(p, k) == SubSeq(p, 1, k)

\* pathlib's PurePath.parents: every proper ancestor, "/" included.
Parents(p) == {Prefix(p, k) : k \in 0..(Len(p) - 1)}

Kind(p) ==
    IF \E k \in 1..Len(p) : Prefix(p, k) \in removed THEN "none" ELSE StaticKind(p)

Exists(p) == Kind(p) # "none"

\* Path.resolve(): the canonical path, symbolic links followed component by
\* component; the components below a missing one are kept as they are.
\* (Values are bound with \E x \in {e} so that they are computed once.)
RECURSIVE Canon(_)
Canon(p) ==
    IF p = <<>> THEN <<>>
    ELSE CHOOSE r \in {IF Kind(q) = "link" THEN Canon(LinkTarget(q)) ELSE q :
                          q \in {Append(Canon(Prefix(p, Len(p) - 1)), p[Len(p)])}} : TRUE

\* Path.resolve() raises FileNotFoundError for a path that does not lead to
\* an existing entry where it is strict (Python < 3.6); where it is not
\* strict it returns the path it could build.
ResolveRaises(p) == cfg.strict /\ \E q \in {Canon(p)} : ~Exists(q)

is_file(p) == \E q \in {Canon(p)} : Kind(q) = "file"
is_dir(p)  == \E q \in {Canon(p)} : Kind(q) = "dir"

\* Path.iterdir(): the entries of a directory, in the filesystem's order.
iterdir(d) ==
    CASE d = <<"a">>      -> << <<"a", "s">>, <<"a", "l">>, <<"a", "d">>,
                               <<"a", "br">>, <<"a", "f">> >>
      [] d = <<"a", "d">> -> << <<"a", "d", "h">> >>
      [] d = <<"c">>      -> << <<"c", "e">> >>
      [] d = <<"c", "e">> -> << <<"c", "e", "up">> >>
      [] d = <<"big">>    -> [i \in 1..NumBig |-> <<"big", ToString(i)>>]
      [] d = <<>>         -> << <<"a">>, <<"c">>, <<"big">> >>
      [] OTHER            -> <<>>

\* ------------------------------------------------------ configurations
SeqsUpTo(S, n) == UNION {[1..k -> S] : k \in 0..n}

Roots == {<<"a">>, <<"a", "d">>, <<"a", "br">>, <<"a", "f">>, <<"c">>}
ExcludeRoots == {<<"a">>, <<"a", "d">>, <<"a", "f">>}

\* A list without repetition.
Distinct(s) == \A i, j \in 1..Len(s) : s[i] = s[j] => i = j

\* Small trees, every list of distinct include roots and every exclude list
\* within the bounds, one run.
WalkConfigs ==
    [includes : {s \in SeqsUpTo(Roots, MaxIncludes) : s # <<>> /\ Distinct(s)},
     excludes : SeqsUpTo(ExcludeRoots, MaxExcludes),
     interval : {MaxTime + 1},
     strict   : BOOLEAN]

\* One file, two runs.
BootConfigs ==
    [includes : {<< <<"a", "f">> >>},
     excludes : {<<>>},
     interval : {2},
     strict   : {TRUE}]

\* One file, and the big directory (more than one batch); short intervals.
UploadConfigs ==
    [includes : {<< <<"a", "f">> >>},
     excludes : {<<>>},
     interval : {1, 2},
     strict   : {TRUE}]
    \cup
    [includes : {<< <<"big">> >>},
     excludes : {<<>>, << <<"big", "1">> >>},
     interval : {MaxTime + 1},
     strict   : {TRUE}]

\* -------------------------------------------------------------- helpers
Last(s)  == s[Len(s)]
Front(s) == SubSeq(s, 1, Len(s) - 1)
Min(S)   == CHOOSE x \in S : \A y \in S : x <= y

\* Mutant of Excluded: the ancestors of the path are not looked at.
Excluded_EqualOnly(exclude, p) == exclude = p

\* The for / else of lines 177-181: the first exclude that is the path or
\* one of its ancestors, <<>> when the loop ends without break.
Excluded(exclude, p) == exclude = p \/ exclude \in Parents(p)

FirstExclude(p) ==
    LET hit == {i \in 1..Len(excludes) : Excluded(excludes[i], p)}
    IN IF hit = {} THEN <<>> ELSE <<excludes[Min(hit)]>>

\* Mutant of TooEarly: a run that is due exactly now is put off.
TooEarly_Inclusive == lastrun # <<>> /\ lastrun[1] + cfg.interval >= now

\* Line 250.
TooEarly == lastrun # <<>> /\ lastrun[1] + cfg.interval > now

\* The time a run takes: less than a tick, or one tick.
Elapsed == {now, IF now < MaxTime THEN now + 1 ELSE now}

\* What an invocation of the tool can end run_backup with: check_output
\* raises for a non-zero exit status (line 57), ElementTree for output that
\* is not well-formed (lines 66 and 77).
ToolFailures == {"CalledProcessError", "ParseError"}

\* Mutant of Raise: the exception is not caught and ends the process.
Raise_Uncaught(exc) ==
    /\ pc' = "exited"
    /\ console' = <<"failed", exc>>
    /\ now' \in Elapsed

\* An exception leaves run_backup and is caught at line 261.
Raise(exc) ==
    /\ pc' = "main"
    /\ console' = <<"failed", exc>>
    /\ now' \in Elapsed

\* ------------------------------------------------------------- run_util
TempFiles == {"passfile", "keyfile"}

\* The positions at which the program calls run_util.
ToolPositions == {"boot", "upload", "finish"}

\* Lines 47-55: both files exist and hold the secrets, the tool is started.
\* (What the caller does around the call, the list file of lines 97-103
\* included, belongs to the step that ends the call.)
RunUtilEnter ==
    /\ pc \in ToolPositions
    /\ tempfiles = {}
    /\ tempfiles' = TempFiles
    /\ UNCHANGED <<pc, procvars, now, console, removed, logfile, logclosed, counters,
                   walkvars, retpc, uploadvars, nitems, reportvars, batches>>

\* Line 55: the tool is running.
ToolRunning == tempfiles = TempFiles

\* Mutant of RunUtilExit: the files are removed after a return only.
RunUtilExit_OnReturn(how) == tempfiles' = IF how = "return" THEN {} ELSE tempfiles

\* Lines 47-48: the two with statements are left, by the return of line 57
\* or by the exception check_output raises; each closes its file, and
\* closing a NamedTemporaryFile removes it.
RunUtilExit(how) == tempfiles' = {}

\* -------------------------------------------------------------- startup
InitWith(configs) ==
    /\ pc = "boot"
    /\ tempfiles = {}
    /\ cfg \in configs
    /\ device_id = <<>>
    /\ devices = <<>>
    /\ lastrun \in {<<>>, <<0>>}
    /\ leftover = <<>>
    /\ now = 0
    /\ console = <<"none", "">>
    /\ removed = {}
    /\ logfile = <<>>
    /\ logclosed = TRUE
    /\ files_considered_for_backup = 0
    /\ files_backed_up_now = 0
    /\ files_already_present = 0
    /\ files_failed_to_backup = 0
    /\ includes = <<>>
    /\ excludes = <<>>
    /\ files = <<>>
    /\ include = <<>>
    /\ retpc = "walk"
    /\ listfile = <<>>
    /\ items = <<>>
    /\ done = <<>>
    /\ last_total_transfer_size = 0
    /\ transfer_size = <<>>
    /\ nitems = 0
    /\ quota = <<>>
    /\ mail = <<>>
    /\ emitted = <<>>
    /\ batches = <<>>

\* config['device_name'].
DeviceName == "mine"

\* The items of the output of --list-device, line 85.
DeviceListings == SeqsUpTo([nick_name : {"mine", "other"}, device_id : {"A", "B"}], 2)

\* A listing without the device, and one that has nothing else.
FewListings == {<<>>, << [nick_name |-> "mine", device_id |-> "A"] >>}

\* Mutant of FirstMatch: the last device of that nick name is taken.
FirstMatch_Last(listing) ==
    LET hit == {i \in 1..Len(listing) : listing[i].nick_name = DeviceName}
    IN IF hit = {} THEN <<>>
       ELSE <<listing[CHOOSE i \in hit : \A j \in hit : j <= i]>>

\* The for / else of lines 85-91: the first device whose nick name is the
\* configured one, <<>> when the loop ends without break.
FirstMatch(listing) ==
    LET hit == {i \in 1..Len(listing) : listing[i].nick_name = DeviceName}
    IN IF hit = {} THEN <<>> ELSE <<listing[Min(hit)]>>

\* Lines 85-91, the tool answering with one of `listings`.
DeviceLookup(listings) ==
    /\ pc = "boot"
    /\ ToolRunning
    /\ RunUtilExit("return")
    /\ \E listing \in listings :
         /\ devices' = listing
         /\ \E device \in {FirstMatch(listing)} :
              IF device = <<>>
              THEN /\ pc' = "exited"
                   /\ UNCHANGED device_id
              ELSE /\ pc' = "main"
                   /\ device_id' = << <<"5c0b", device[1].device_id, "4b5z">> >>
    /\ UNCHANGED <<cfg, lastrun, leftover, now, console, removed, logfile, logclosed,
                   counters, walkvars, retpc, uploadvars, nitems, reportvars, batches>>

Boot == DeviceLookup(FewListings)

BootAny == DeviceLookup(DeviceListings)

\* ------------------------------------------------------------ main loop
\* Lines 240-252: too early, sleep 300 s and look again.
MainSleep ==
    /\ pc = "main"
    /\ TooEarly
    /\ now < MaxTime
    /\ now' = now + 1
    /\ UNCHANGED <<pc, procvars, console, removed, logfile, logclosed, counters,
                   walkvars, retpc, uploadvars, nitems, reportvars, batches>>
    /\ UNCHANGED tempfiles

\* Mutant of MainStart: the run is entered without the marker being written.
MainStart_KeepsMarker ==
    /\ pc = "main"
    /\ ~TooEarly
    /\ leftover' = <<console, files_considered_for_backup>>
    /\ console' = <<"starting", "">>
    /\ pc' = "run"
    /\ UNCHANGED <<cfg, device_id, devices, lastrun, now, removed, logfile, logclosed,
                   counters, walkvars, retpc, uploadvars, nitems, reportvars, batches>>
    /\ UNCHANGED tempfiles

\* Lines 240-258: due; write the marker and enter run_backup.
MainStart ==
    /\ pc = "main"
    /\ ~TooEarly
    /\ lastrun' = <<now>>
    /\ leftover' = <<console, files_considered_for_backup>>
    /\ console' = <<"starting", "">>
    /\ pc' = "run"
    /\ UNCHANGED <<cfg, device_id, devices, now, removed, logfile, logclosed,
                   counters, walkvars, retpc, uploadvars, nitems, reportvars, batches>>
    /\ UNCHANGED tempfiles

\* ------------------------------------------------------------ run_backup
\* Mutant of RunStart: the counters are left as the run before left them.
RunStart_KeepsCounters ==
    /\ pc = "run"
    /\ logfile' = << [ev |-> "start"] >>
    /\ logclosed' = FALSE
    /\ includes' = cfg.includes
    /\ excludes' = cfg.excludes
    /\ files' = <<>>
    /\ include' = <<>>
    /\ emitted' = <<>>
    /\ batches' = <<>>
    /\ nitems' = 0
    /\ quota' = <<>>
    /\ mail' = <<>>
    /\ pc' = "walk"
    /\ UNCHANGED <<procvars, now, console, removed, retpc, uploadvars, counters>>
    /\ UNCHANGED tempfiles

\* Lines 156-169.
RunStart ==
    /\ pc = "run"
    /\ logfile' = << [ev |-> "start"] >>
    /\ logclosed' = FALSE
    /\ files_considered_for_backup' = 0
    /\ files_backed_up_now' = 0
    /\ files_already_present' = 0
    /\ files_failed_to_backup' = 0
    /\ includes' = cfg.includes
    /\ excludes' = cfg.excludes
    /\ files' = <<>>
    /\ include' = <<>>
    /\ emitted' = <<>>
    /\ batches' = <<>>
    /\ nitems' = 0
    /\ quota' = <<>>
    /\ mail' = <<>>
    /\ pc' = "walk"
    /\ UNCHANGED <<procvars, now, console, removed, retpc, uploadvars>>
    /\ UNCHANGED tempfiles

\* Mutant of BatchFull: the queue is flushed one path late.
BatchFull_OneLate(queue) == Len(queue) = BatchSize + 1

\* Line 185.
BatchFull(queue) == Len(queue) = BatchSize

\* Lines 178-180: the path is excluded.
SkipExcluded(cur, rest, log) ==
    /\ logfile' = Append(log, [ev |-> "skip_exclude", path |-> cur,
                               exclude |-> FirstExclude(cur)[1]])
    /\ includes' = rest
    /\ pc' = "walk"
    /\ UNCHANGED <<files, emitted, removed, retpc, console, now>>

\* Mutant of Emit: the path is put at the head of the queue.
Emit_Prepend(cur, rest, log) ==
    /\ files' = <<cur>> \o files
    /\ emitted' = Append(emitted, cur)
    /\ includes' = rest
    /\ logfile' = log
    /\ IF BatchFull(<<cur>> \o files)
       THEN pc' = "upload" /\ retpc' = "walk"
       ELSE pc' = "walk" /\ UNCHANGED retpc
    /\ UNCHANGED <<removed, console, now>>

\* Lines 182-186: a regular file joins the queue; a full queue is uploaded.
Emit(cur, rest, log) ==
    /\ files' = Append(files, cur)
    /\ emitted' = Append(emitted, cur)
    /\ includes' = rest
    /\ logfile' = log
    /\ IF BatchFull(Append(files, cur))
       THEN pc' = "upload" /\ retpc' = "walk"
       ELSE pc' = "walk" /\ UNCHANGED retpc
    /\ UNCHANGED <<removed, console, now>>

\* Lines 187-189: the entries of a directory join the work list.
Expand(cur, rest, log) ==
    /\ includes' = rest \o iterdir(cur)
    /\ logfile' = log
    /\ pc' = "walk"
    /\ UNCHANGED <<files, emitted, removed, retpc, console, now>>

\* Mutant of SkipRemoved: the FileNotFoundError of iterdir() is not caught.
SkipRemoved_Uncaught(cur, rest, log) ==
    /\ removed' = removed \cup {cur}
    /\ Raise("FileNotFoundError")
    /\ logfile' = log
    /\ includes' = rest
    /\ UNCHANGED <<files, emitted, retpc>>

\* Lines 190-191: the directory was deleted between is_dir() and iterdir().
SkipRemoved(cur, rest, log) ==
    /\ removed' = removed \cup {cur}
    /\ logfile' = Append(log, [ev |-> "skip_removed", path |-> cur])
    /\ includes' = rest
    /\ pc' = "walk"
    /\ UNCHANGED <<files, emitted, retpc, console, now>>

\* Lines 192-193.
SkipOther(cur, rest, log) ==
    /\ logfile' = Append(log, [ev |-> "skip_other", path |-> cur])
    /\ includes' = rest
    /\ pc' = "walk"
    /\ UNCHANGED <<files, emitted, removed, retpc, console, now>>

\* Lines 177-193 for the path `cur`, with `rest` the work list after the pop
\* and `log` the log file after the try statement.
Visit(cur, rest, log) ==
    /\ include' = <<cur>>
    /\ IF FirstExclude(cur) # <<>> THEN SkipExcluded(cur, rest, log)
       ELSE IF is_file(cur) THEN Emit(cur, rest, log)
       ELSE IF is_dir(cur)
       THEN \/ Expand(cur, rest, log)
            \/ cur \in Removable /\ SkipRemoved(cur, rest, log)
       ELSE SkipOther(cur, rest, log)

\* One iteration of the loop of lines 171-193.
WalkStep ==
    /\ pc = "walk"
    /\ includes # <<>>
    /\ \E top \in {Last(includes)}, rest \in {Front(includes)} :
         IF ResolveRaises(top)
         THEN IF include = <<>>
              THEN \* line 175 reads `include` before any assignment
                   /\ Raise("UnboundLocalError")
                   /\ includes' = rest
                   /\ UNCHANGED <<logfile, files, emitted, include, removed, retpc>>
              ELSE \* line 175 logs, and the loop body goes on with the
                   \* path of the iteration before
                   \E cur \in {include[1]} :
                       Visit(cur, rest,
                             Append(logfile, [ev |-> "skip_broken", path |-> cur]))
         ELSE \E cur \in {Canon(top)} : Visit(cur, rest, logfile)
    /\ UNCHANGED <<procvars, logclosed, counters, excludes, uploadvars, nitems,
                   reportvars, batches>>
    /\ UNCHANGED tempfiles

\* Mutant of WalkEnd: the queue is not flushed when the walk is over.
WalkEnd_NoFlush ==
    /\ pc = "walk"
    /\ includes = <<>>
    /\ pc' = "finish"
    /\ UNCHANGED <<procvars, now, console, removed, logfile, logclosed, counters,
                   walkvars, retpc, uploadvars, nitems, reportvars, batches>>
    /\ UNCHANGED tempfiles

\* Lines 195-196: the walk is over.
WalkEnd ==
    /\ pc = "walk"
    /\ includes = <<>>
    /\ IF Len(files) > 0
       THEN pc' = "upload" /\ retpc' = "finish"
       ELSE pc' = "finish" /\ UNCHANGED retpc
    /\ UNCHANGED <<procvars, now, console, removed, logfile, logclosed, counters,
                   walkvars, uploadvars, nitems, reportvars, batches>>
    /\ UNCHANGED tempfiles

\* The environment deletes a directory while the walk is in progress.
EnvRemove ==
    /\ pc = "walk"
    /\ \E d \in Removable :
         /\ Exists(d)
         /\ removed' = removed \cup {d}
    /\ UNCHANGED <<pc, procvars, now, console, logfile, logclosed, counters, walkvars,
                   retpc, uploadvars, nitems, reportvars, batches>>
    /\ UNCHANGED tempfiles

\* ---------------------------------------------------------- upload_files
\* What one <item .../> line of the tool's output can carry.  Attributes are
\* optional values: <<>> is an attribute the line does not have.
TrfTypes == {<<"FULL">>, <<"INCREMENTAL">>, <<"FILE IN SYNC">>, <<"ERROR">>, <<>>}

Records ==
    [per : {"100%"}, trf_type : TrfTypes, tottrf_sz : {<<1000>>, <<1500>>}]
    \cup [per : {"100%"}, trf_type : {<<"FULL">>}, tottrf_sz : {<<>>}]
    \cup [per : {"50%"}, trf_type : {<<"FULL">>}, tottrf_sz : {<<>>, <<1200>>}]

\* Lines 70-79: the lines of the output that start with '<item', in order.
Responses(n) == SeqsUpTo(Records, n)

\* Lines 97-112, the tool printing at most `limit` item lines.
UploadCall(limit) ==
    /\ pc = "upload"
    /\ ToolRunning
    /\ batches' = Append(batches, files)
    /\ files' = <<>>
    /\ \/ \E out \in Responses(limit) :
            /\ listfile' = <<files>>
            /\ items' = out
            /\ done' = <<>>
            /\ nitems' = nitems + Len(out)
            /\ last_total_transfer_size' = 0
            /\ pc' = "items"
            /\ RunUtilExit("return")
            /\ UNCHANGED <<console, now>>
       \/ \* the tool fails, or prints an item line that does not parse
          /\ \E exc \in ToolFailures :
                /\ Raise(exc)
                /\ RunUtilExit(IF exc = "CalledProcessError" THEN "raise" ELSE "return")
          /\ listfile' = <<>>
          /\ UNCHANGED <<items, done, nitems, last_total_transfer_size>>
    /\ UNCHANGED <<procvars, removed, logfile, logclosed, counters, includes, excludes,
                   include, emitted, retpc, transfer_size, reportvars>>

\* Lines 132-142: the unit the transferred size is logged in.
Unit(size) ==
    IF size > 1024 * 1024 * 1024 THEN "GB"
    ELSE IF size > 1024 * 1024 THEN "MB"
    ELSE IF size > 1024 THEN "kB"
    ELSE "B"

\* Mutant of Outcome: a file in sync is counted as backed up now.
Outcome_SyncAsNow(transfer_type) ==
    IF transfer_type \in {<<"FULL">>, <<"INCREMENTAL">>, <<"FILE IN SYNC">>} THEN "now"
    ELSE "failed"

\* Lines 128-150: the counter a record's trf_type selects.
Outcome(transfer_type) ==
    IF transfer_type = <<"FULL">> \/ transfer_type = <<"INCREMENTAL">> THEN "now"
    ELSE IF transfer_type = <<"FILE IN SYNC">> THEN "present"
    ELSE "failed"

\* Mutant of Complete: records below 100% are processed too.
Complete_Any(item) == item.per \in {"100%", "50%"}

\* Line 115.
Complete(item) == item.per = "100%"

\* Mutant of TransferSize: the cumulative total is taken for the size.
TransferSize_Cumulative(total_transfer_size, last) == total_transfer_size

\* Line 123.
TransferSize(total_transfer_size, last) == total_transfer_size - last

\* Mutant of Continue: a record that is passed over moves the baseline.
Continue_MovesBaseline(item) ==
    /\ items' = Tail(items)
    /\ done' = Append(done, item)
    /\ last_total_transfer_size' =
           IF item.tottrf_sz = <<>> THEN last_total_transfer_size
           ELSE item.tottrf_sz[1]
    /\ UNCHANGED <<pc, console, now, listfile, transfer_size, logfile, counters>>

\* Lines 115-116: the loop goes on to the next record.
Continue(item) ==
    /\ items' = Tail(items)
    /\ done' = Append(done, item)
    /\ UNCHANGED <<pc, console, now, listfile, last_total_transfer_size,
                   transfer_size, logfile, counters>>

\* One iteration of the loop of lines 114-150.
ProcessItem ==
    /\ pc = "items"
    /\ items # <<>>
    /\ LET item == Head(items)
       IN IF ~Complete(item)
          THEN Continue(item)
          ELSE IF item.tottrf_sz = <<>>
          THEN \* int(None) at line 121
               /\ Raise("TypeError")
               /\ listfile' = <<>>
               /\ items' = <<>>
               /\ done' = <<>>
               /\ last_total_transfer_size' = 0
               /\ transfer_size' = <<>>
               /\ UNCHANGED <<logfile, counters>>
          ELSE LET total_transfer_size == item.tottrf_sz[1]
                   size == TransferSize(total_transfer_size, last_total_transfer_size)
                   kind == Outcome(item.trf_type)
               IN /\ transfer_size' = <<size>>
                  /\ last_total_transfer_size' = total_transfer_size
                  /\ files_considered_for_backup' = files_considered_for_backup + 1
                  /\ files_backed_up_now' =
                         files_backed_up_now + (IF kind = "now" THEN 1 ELSE 0)
                  /\ files_already_present' =
                         files_already_present + (IF kind = "present" THEN 1 ELSE 0)
                  /\ files_failed_to_backup' =
                         files_failed_to_backup + (IF kind = "failed" THEN 1 ELSE 0)
                  /\ logfile' =
                         CASE kind = "now" ->
                                Append(logfile, [ev |-> "transferred", size |-> size,
                                                 unit |-> Unit(size)])
                           [] kind = "present" -> logfile
                           [] kind = "failed" ->
                                Append(logfile, [ev |-> "failed", item |-> item])
                  /\ items' = Tail(items)
                  /\ done' = Append(done, item)
                  /\ UNCHANGED <<pc, console, now, listfile>>
    /\ UNCHANGED <<procvars, removed, logclosed, walkvars, retpc, nitems, reportvars,
                   batches>>
    /\ UNCHANGED tempfiles

\* The loop of line 114 is over: the list file goes, upload_files returns.
UploadReturn ==
    /\ pc = "items"
    /\ items = <<>>
    /\ listfile' = <<>>
    /\ done' = <<>>
    /\ last_total_transfer_size' = 0
    /\ transfer_size' = <<>>
    /\ pc' = retpc
    /\ UNCHANGED <<procvars, now, console, removed, logfile, logclosed, counters,
                   walkvars, retpc, items, nitems, reportvars, batches>>
    /\ UNCHANGED tempfiles

\* ------------------------------------------------------- the run's report
\* Line 206: bytes to GB.
GB(bytes) == bytes \div (2 ^ 30)

\* Byte counts as the tool reports them (1.5 GB used of just under 2 GB).
QuotaReplies == {[usedquota |-> 3 * (2 ^ 29), totalquota |-> (2 ^ 30 - 1) + 2 ^ 30]}

\* Lines 200-203: the closing line of the log.
ClosingLine ==
    [ev |-> IF files_failed_to_backup = 0 THEN "finished_ok" ELSE "finished_incomplete"]

\* Mutant of Subject: the two counts change places in the subject.
Subject_Swapped ==
    IF files_failed_to_backup = 0
    THEN [subject |-> "successful", failed |-> 0, considered |-> 0]
    ELSE [subject |-> "incomplete",
          failed |-> files_considered_for_backup,
          considered |-> files_failed_to_backup]

\* Lines 231-234: the subject of the notification; the incomplete one names
\* the failed and the considered count, the successful one names no count.
Subject ==
    IF files_failed_to_backup = 0
    THEN [subject |-> "successful", failed |-> 0, considered |-> 0]
    ELSE [subject |-> "incomplete",
          failed |-> files_failed_to_backup,
          considered |-> files_considered_for_backup]

\* Lines 198-228: the closing line, the quota, the summary, the log closed.
Finish ==
    /\ pc = "finish"
    /\ ToolRunning
    /\ \/ \E q \in QuotaReplies :
            /\ quota' = << [used |-> GB(q.usedquota), total |-> GB(q.totalquota)] >>
            /\ logfile' = Append(Append(logfile, ClosingLine), [ev |-> "summary"])
            /\ logclosed' = TRUE
            /\ pc' = "notify"
            /\ RunUtilExit("return")
            /\ UNCHANGED <<console, now>>
       \/ \* the quota query fails, or its output does not parse
          /\ \E exc \in ToolFailures :
                /\ Raise(exc)
                /\ RunUtilExit(IF exc = "CalledProcessError" THEN "raise" ELSE "return")
          /\ logfile' = Append(logfile, ClosingLine)
          /\ UNCHANGED <<quota, logclosed>>
    /\ UNCHANGED <<procvars, removed, counters, walkvars, retpc, uploadvars, nitems,
                   mail, batches>>

\* Lines 230-237, then line 260.
Notify ==
    /\ pc = "notify"
    /\ \/ /\ mail' = <<Subject>>
          /\ pc' = "main"
          /\ console' = <<"completed", "">>
          /\ now' \in Elapsed
       \/ \* curl fails
          /\ Raise("CalledProcessError")
          /\ UNCHANGED mail
    /\ UNCHANGED <<procvars, removed, logfile, logclosed, counters, walkvars, retpc,
                   uploadvars, nitems, quota, batches>>
    /\ UNCHANGED tempfiles

\* ------------------------------------------------------- specifications
\* The tool prints nothing but noise: run_util_items returns no item.
UploadQuiet == UploadCall(0)

\* The tool prints item lines, MaxItems during a run at the most.
UploadItems == UploadCall(MaxItems - nitems)

Init == InitWith(UploadConfigs)

Next ==
    \/ RunUtilEnter
    \/ Boot
    \/ MainSleep
    \/ MainStart
    \/ RunStart
    \/ WalkStep
    \/ WalkEnd
    \/ UploadItems
    \/ ProcessItem
    \/ UploadReturn
    \/ Finish
    \/ Notify

Spec == Init /\ [][Next]_vars

WalkInit == InitWith(WalkConfigs)

WalkNext ==
    \/ RunUtilEnter
    \/ Boot
    \/ MainSleep
    \/ MainStart
    \/ RunStart
    \/ WalkStep
    \/ WalkEnd
    \/ EnvRemove
    \/ UploadQuiet
    \/ UploadReturn
    \/ Finish
    \/ Notify

WalkSpec == WalkInit /\ [][WalkNext]_vars

\* The interpreter keeps executing the program: a step of the program that
\* is possible is taken.  Nothing is assumed of the environment.
WalkProgram ==
    \/ RunUtilEnter
    \/ Boot
    \/ MainSleep
    \/ MainStart
    \/ RunStart
    \/ WalkStep
    \/ WalkEnd
    \/ UploadQuiet
    \/ UploadReturn
    \/ Finish
    \/ Notify

WalkFairSpec == WalkSpec /\ WF_vars(WalkProgram)

\* Every device listing, one small tree.
BootInit == InitWith(BootConfigs)

BootNext ==
    \/ RunUtilEnter
    \/ BootAny
    \/ MainSleep
    \/ MainStart
    \/ RunStart
    \/ WalkStep
    \/ WalkEnd
    \/ UploadQuiet
    \/ UploadReturn
    \/ Finish
    \/ Notify

BootSpec == BootInit /\ [][BootNext]_vars

\* ------------------------------------------------- vocabulary of the claims
\* e is p or one of its ancestors, read off the components.
IsPrefix(e, p) == Len(e) <= Len(p) /\ \A k \in 1..Len(e) : e[k] = p[k]

UnderExclude(p) == \E i \in 1..Len(cfg.excludes) : IsPrefix(cfg.excludes[i], p)

Elems(s) == {s[i] : i \in 1..Len(s)}

Count(s, x) == Cardinality({i \in 1..Len(s) : s[i] = x})

InRun == pc \in {"walk", "upload", "items", "finish", "notify"}

\* The directory a work-list entry was listed from.
Dirname(p) == SubSeq(p, 1, Len(p) - 1)

\* C1: no path that is appended to the pending queue, and so no path of a
\* submitted batch, is an exclude path or lies below one; and the work list
\* holds nothing but configured roots and entries of directories that are
\* not excluded (an excluded directory is never listed).
C1_NothingExcludedEmitted ==
    InRun =>
        /\ \A p \in Elems(emitted) \cup Elems(files) : ~UnderExclude(p)
        /\ \A i \in 1..Len(batches) : \A p \in Elems(batches[i]) : ~UnderExclude(p)
        /\ \A p \in Elems(includes) :
               p \in Elems(cfg.includes) \/ ~UnderExclude(Dirname(p))

\* C1 witness: the directory /a/d was skipped for an exclude, its file /a/d/h
\* stayed out, and the walk went on to emit /a/f.
C1_Witness ==
    /\ pc = "finish"
    /\ \E i \in 1..Len(logfile) :
           logfile[i] = [ev |-> "skip_exclude", path |-> <<"a", "d">>,
                         exclude |-> <<"a", "d">>]
    /\ <<"a", "f">> \in Elems(emitted)
    /\ <<"a", "d", "h">> \notin Elems(emitted)

\* The regular files the configuration asks for: below (or at) what an
\* include root resolves to, and neither an exclude path nor below one.
Wanted ==
    {f \in StaticFiles :
        /\ Kind(f) = "file"
        /\ ~UnderExclude(f)
        /\ \E i \in 1..Len(cfg.includes) :
               /\ IsPrefix(Canon(cfg.includes[i]), f)
               /\ \A k \in Len(Canon(cfg.includes[i]))..(Len(f) - 1) :
                      ~UnderExclude(Prefix(f, k))}

\* C2 (as claimed): no path is emitted twice during a run, and when the walk
\* has ended every wanted regular file has been emitted.
C2_EmittedExactlyOnce ==
    /\ InRun => \A p \in Elems(emitted) : Count(emitted, p) = 1
    /\ pc = "finish" => \A f \in Wanted : Count(emitted, f) = 1

\* C3: every batch handed to upload_files holds between 1 and 1000 paths,
\* every batch but the last one of the run holds exactly 1000, and nothing
\* is uploaded in a run that has emitted nothing.
C3_BatchSizes ==
    InRun =>
        /\ \A i \in 1..Len(batches) :
               /\ Len(batches[i]) >= 1
               /\ Len(batches[i]) <= 1000
               /\ i < Len(batches) => Len(batches[i]) = 1000
        /\ emitted = <<>> => batches = <<>>
        /\ Len(files) < 1000 \/ pc = "upload"

\* C3 witness: a run has uploaded a full batch and then a short last one.
C3_Witness ==
    /\ pc = "finish"
    /\ Len(batches) = 2
    /\ Len(batches[1]) = 1000
    /\ Len(batches[2]) = NumBig - 1000

\* The batches of the run laid end to end.
RECURSIVE Concat(_)
Concat(ss) == IF ss = <<>> THEN <<>> ELSE Head(ss) \o Concat(Tail(ss))

\* C19: at every moment of a run the paths appended to the queue so far
\* are, in the order of their appending, the submitted batches laid end to
\* end followed by the queue as it stands; the queue is empty right after a
\* submission and while its response is processed, and it is empty when
\* the walk and its final flush are over, so that the batches then hold
\* every appended path once and in order.
C19_BatchesPartitionEmitted ==
    /\ pc \in {"walk", "upload", "items", "finish", "notify"} =>
          Concat(batches) \o files = emitted
    /\ pc = "items" => files = <<>>
    /\ pc \in {"finish", "notify"} =>
          /\ files = <<>>
          /\ Concat(batches) = emitted

\* C19 witness: NumBig paths were appended, the first 1000 went out in one
\* batch when the queue was full and the rest in the final flush.
C19_Witness ==
    /\ pc = "notify"
    /\ Len(emitted) = 1001
    /\ Len(batches) = 2
    /\ batches[1][1000] = emitted[1000]
    /\ batches[2] = <<emitted[1001]>>
    /\ files = <<>>

\* ------------------------------------------------------------ upload_files
Sum3 == files_backed_up_now + files_already_present + files_failed_to_backup

\* The 100%-complete records among those of the response still to process.
Pending == Cardinality({i \in 1..Len(items) : items[i].per = "100%"})

\* C4: the counters balance at every moment of a run, no counter decreases
\* within a run, the call of the tool itself moves no counter, and while a
\* response is processed the considered count (and the sum of the three
\* outcome counters) plus the number of 100% records still to process stays
\* what it was: when upload_files returns, both have grown by exactly the
\* number of 100% records of the response.
C4_CounterConservation ==
    /\ [](files_considered_for_backup = Sum3)
    /\ [][ /\ pc # "run" =>
                /\ files_considered_for_backup' >= files_considered_for_backup
                /\ files_backed_up_now' >= files_backed_up_now
                /\ files_already_present' >= files_already_present
                /\ files_failed_to_backup' >= files_failed_to_backup
           /\ pc = "upload" /\ pc' = "items" =>
                /\ items' \in Seq(Records)
                /\ counters' = counters
           /\ pc = "items" /\ pc' # "main" =>
                /\ files_considered_for_backup' + Pending' =
                       files_considered_for_backup + Pending
                /\ Sum3' + Pending' = Sum3 + Pending
           /\ pc = "items" /\ pc' # "items" /\ pc' # "main" => items = <<>>
         ]_vars

\* C4 witness: upload_files has worked through a response made of a record
\* below 100%, which was not counted, and a 100% record, counted as failed.
C4_Witness ==
    /\ pc = "items"
    /\ items = <<>>
    /\ Len(done) = 2
    /\ done[1].per = "50%"
    /\ files_considered_for_backup = 1
    /\ files_failed_to_backup = 1

\* The 100% records among the processed ones, in order.
Completed == SelectSeq(done, LAMBDA r : r.per = "100%")

\* C5 (amended): the size derived for a 100% record is its tottrf_sz minus
\* the tottrf_sz of the 100% record before it in the same batch, and minus
\* zero for the first 100% record of the batch.
C5_SizeIsDifferenceOfCompleted ==
    pc = "items" =>
        IF Completed = <<>> THEN transfer_size = <<>>
        ELSE LET n == Len(Completed)
             IN /\ transfer_size =
                       << Completed[n].tottrf_sz[1]
                          - (IF n = 1 THEN 0 ELSE Completed[n - 1].tottrf_sz[1]) >>
                /\ last_total_transfer_size = Completed[n].tottrf_sz[1]

\* C5 witness: the second batch of a run, whose first 100% record is
\* measured against zero although the first batch ended at 1500.
C5_Witness ==
    /\ pc = "items"
    /\ Len(batches) = 2
    /\ files_considered_for_backup = 2
    /\ Len(Completed) = 1
    /\ Completed[1].tottrf_sz = <<1000>>
    /\ transfer_size = <<1000>>
    /\ \E i \in 1..Len(logfile) :
           logfile[i] = [ev |-> "transferred", size |-> 1500, unit |-> "kB"]

\* C5 (as claimed): the derived size is never negative and is the record's
\* tottrf_sz minus that of the record right before it in the batch.
C5_SizeNonNegativeVsPreceding ==
    pc = "items" /\ done # <<>> /\ done[Len(done)].per = "100%" =>
        /\ transfer_size[1] >= 0
        /\ Len(done) >= 2 /\ done[Len(done) - 1].tottrf_sz # <<>> =>
               transfer_size[1] =
                   done[Len(done)].tottrf_sz[1] - done[Len(done) - 1].tottrf_sz[1]

\* The record a step of the loop of line 114 looks at.
AtRecord == pc = "items" /\ items # <<>>

Delta ==
    <<files_backed_up_now' - files_backed_up_now,
      files_already_present' - files_already_present,
      files_failed_to_backup' - files_failed_to_backup>>

\* C6 (amended): a 100% record that carries a tottrf_sz increments exactly
\* one outcome counter, the one its trf_type selects, and the loop goes on
\* with the next record; a 100% record without tottrf_sz increments nothing
\* and ends the run with an exception.
C6_OneCounterPerRecord ==
    [][ AtRecord /\ Head(items).per = "100%" =>
          IF Head(items).tottrf_sz # <<>>
          THEN /\ Delta =
                     CASE Head(items).trf_type \in {<<"FULL">>, <<"INCREMENTAL">>}
                              -> <<1, 0, 0>>
                       [] Head(items).trf_type = <<"FILE IN SYNC">> -> <<0, 1, 0>>
                       [] OTHER -> <<0, 0, 1>>
               /\ pc' = "items"
               /\ items' = Tail(items)
          ELSE /\ Delta = <<0, 0, 0>>
               /\ pc' = "main"
               /\ console' = <<"failed", "TypeError">>
      ]_vars

\* C6 witness: a failed record was followed by a transferred one.
C6_Witness ==
    /\ pc = "items"
    /\ Len(done) = 2
    /\ done[1].trf_type = <<>>
    /\ done[2].trf_type = <<"INCREMENTAL">>
    /\ files_failed_to_backup = 1
    /\ files_backed_up_now = 1
    /\ files_already_present = 0

\* C6 (as claimed): every 100% record increments exactly one outcome counter
\* and the processing goes on.
C6_EveryCompleteRecordCounts ==
    [][ AtRecord /\ Head(items).per = "100%" =>
          /\ Delta \in {<<1, 0, 0>>, <<0, 1, 0>>, <<0, 0, 1>>}
          /\ pc' = "items"
      ]_vars

\* C16: a record whose per is not 100% moves no counter, writes no log
\* line, leaves the baseline and the size derived last as they were, and
\* the loop goes on with the next record; so the size derived for a 100%
\* record is its tottrf_sz minus that of the nearest 100% record before it
\* in the batch, however many records below 100% lie between them, and
\* minus zero when no 100% record came before.
C16_IncompleteRecordSkipped ==
    /\ [][ AtRecord /\ Head(items).per # "100%" =>
              /\ counters' = counters
              /\ last_total_transfer_size' = last_total_transfer_size
              /\ transfer_size' = transfer_size
              /\ logfile' = logfile
              /\ pc' = "items"
              /\ items' = Tail(items)
          ]_vars
    /\ [](pc = "items" /\ done # <<>> /\ done[Len(done)].per = "100%" =>
             LET n == Len(done)
                 before == {i \in 1..(n - 1) : done[i].per = "100%"}
                 base == IF before = {} THEN 0
                         ELSE done[CHOOSE i \in before :
                                      \A j \in before : j <= i].tottrf_sz[1]
             IN transfer_size = <<done[n].tottrf_sz[1] - base>>)

\* C16 witness: a record at 50% that reports 1200 bytes was passed over, and
\* the 100% record after it, at 1500 bytes, was given the size 1500.
C16_Witness ==
    /\ pc = "items"
    /\ Len(done) = 2
    /\ done[1].per = "50%"
    /\ done[1].tottrf_sz = <<1200>>
    /\ done[2].per = "100%"
    /\ done[2].tottrf_sz = <<1500>>
    /\ transfer_size = <<1500>>
    /\ files_considered_for_backup = 1

\* ---------------------------------------------------------------- the walk
\* C7 (as claimed): a walk that has begun comes to an empty work list (or is
\* ended by an exception).
C7_WalkTerminates ==
    (pc = "walk") ~> ((pc = "walk" /\ includes = <<>>) \/ pc = "main")

\* The path the next iteration pops, and what it resolves to.
Top == Last(includes)

AtPop == pc = "walk" /\ includes # <<>>

\* C8 (as claimed): an iteration whose resolve() fails logs a skip for the
\* popped path, emits and expands nothing, and leaves the run in the walk
\* with the rest of the work list.
C8_BrokenLinkSkipped ==
    [][ AtPop /\ ResolveRaises(Top) =>
          /\ pc' = "walk"
          /\ includes' = Front(includes)
          /\ files' = files
          /\ emitted' = emitted
          /\ logfile' = Append(logfile, [ev |-> "skip_broken", path |-> Top])
      ]_vars

\* C9: an iteration that pops a path which resolves, is not excluded and is
\* neither a regular file nor a directory, or is a directory that is deleted
\* before it can be listed, logs one skip for it, emits nothing, pushes
\* nothing and leaves the run in the walk with the rest of the work list.
C9_UnlistableSkipped ==
    [][ /\ WalkStep
        /\ ~ResolveRaises(Top)
        /\ ~UnderExclude(Canon(Top))
        /\ \/ Kind(Canon(Top)) \notin {"file", "dir"}
           \/ Kind(Canon(Top)) = "dir" /\ removed' # removed
        =>
        /\ pc' = "walk"
        /\ includes' = Front(includes)
        /\ files' = files
        /\ emitted' = emitted
        /\ console' = console
        /\ logfile' = Append(logfile,
               [ev |-> IF Kind(Canon(Top)) = "dir" THEN "skip_removed" ELSE "skip_other",
                path |-> Canon(Top)])
      ]_vars

\* C9 witness: /a/d vanished when it was to be listed, /a/s was found to be
\* a socket afterwards, and the walk came to its end with /a/f emitted.
C9_Witness ==
    /\ pc = "finish"
    /\ <<"a", "f">> \in Elems(emitted)
    /\ \E i, j \in 1..Len(logfile) :
           /\ i < j
           /\ logfile[i] = [ev |-> "skip_removed", path |-> <<"a", "d">>]
           /\ logfile[j] = [ev |-> "skip_other", path |-> <<"a", "s">>]

\* ------------------------------------------------------------ the main loop
\* C10: an iteration of the main loop starts a run (and writes the marker)
\* exactly when there is no marker or marker + interval is not later than
\* now; otherwise it sleeps one period and touches neither the marker nor
\* anything a run touches.
C10_SchedulingDecision ==
    [][ pc = "main" =>
          IF lastrun = <<>> \/ lastrun[1] + cfg.interval <= now
          THEN /\ pc' = "run"
               /\ lastrun' = <<now>>
          ELSE /\ pc' = "main"
               /\ lastrun' = lastrun
               /\ now' = now + 1
               /\ logfile' = logfile
               /\ counters' = counters
               /\ batches' = batches
               /\ mail' = mail
      ]_vars

\* C10 witness: after a first run at tick 0 the loop slept through tick 1
\* and starts the second run at tick 2, the interval being two ticks.
C10_Witness ==
    /\ pc = "run"
    /\ cfg.interval = 2
    /\ lastrun = <<2>>
    /\ now = 2
    /\ mail # <<>>

\* C11: a run ends in one of two ways only, by completing or by an exception
\* that the main loop catches; either way the process is back in the main
\* loop (it never exits once the loop was entered).  A run ended by an
\* exception does nothing more: the step that raises sends no notification,
\* queries no quota, counts and emits nothing, and leaves the marker as the
\* run's start wrote it, so that the loop sleeps until marker + interval.
Exceptions == ToolFailures \cup {"TypeError", "UnboundLocalError"}

RunPositions == {"run", "walk", "upload", "items", "finish", "notify"}

C11_ExceptionsCaught ==
    [][ /\ pc # "boot" => pc' # "exited"
        /\ pc \in RunPositions /\ pc' \notin RunPositions =>
              /\ pc' = "main"
              /\ \/ console' = <<"completed", "">>
                 \/ \E e \in Exceptions : console' = <<"failed", e>>
              /\ lastrun' = lastrun
              /\ lastrun # <<>>
              /\ console'[1] = "failed" =>
                    /\ mail' = mail
                    /\ quota' = quota
                    /\ counters' = counters
                    /\ emitted' = emitted
        /\ pc = "main" /\ console[1] = "failed" =>
              IF lastrun[1] + cfg.interval > now
              THEN pc' = "main" /\ now' = now + 1 /\ console' = console
              ELSE pc' = "run"
      ]_vars

\* C11 witness: the tool's output for the second batch of a run did not
\* parse; no quota was queried, no notification sent, and the loop is
\* waiting for the interval to pass.
C11_Witness ==
    /\ pc = "main"
    /\ console = <<"failed", "ParseError">>
    /\ Len(batches) = 2
    /\ quota = <<>>
    /\ mail = <<>>
    /\ lastrun[1] + cfg.interval > now

\* ----------------------------------------------------------------- run_util
\* C12: the password file and the key file exist only while the program is
\* in a call of run_util: once the call has returned or raised (the run is
\* at any other position, or back in the main loop, or the process has
\* exited) neither file exists.
C12_SecretsRemoved ==
    /\ tempfiles \in {{}, {"passfile", "keyfile"}}
    /\ pc \notin {"boot", "upload", "finish"} => tempfiles = {}

\* C12 witness: the tool ended the upload of a batch with a non-zero exit
\* status; the exception has reached the main loop and both files are gone.
C12_Witness ==
    /\ pc = "main"
    /\ console = <<"failed", "CalledProcessError">>
    /\ Len(batches) = 1
    /\ tempfiles = {}

\* C15: the step that starts a run writes the marker with the time of that
\* moment, and it is taken only when there is no marker or the marker is
\* at least one interval old; nothing else writes the marker, neither the
\* run nor the handling of its exception, so the marker a start finds is
\* the time of the start before it, and two starts in a row are at least
\* one interval apart whether the first run completed or failed.
C15_StartsOneIntervalApart ==
    [][ /\ pc = "main" /\ pc' = "run" =>
              /\ lastrun' = <<now>>
              /\ now' = now
              /\ lastrun # <<>> => now - lastrun[1] >= cfg.interval
        /\ lastrun' # lastrun => pc = "main" /\ pc' = "run"
        /\ pc \in RunPositions => lastrun # <<>> /\ lastrun[1] <= now
      ]_vars

\* C15 witness: the run started at tick 0 ended by an exception before its
\* log was closed; the next run starts at tick 2, the interval being two
\* ticks.
C15_Witness ==
    /\ pc = "run"
    /\ cfg.interval = 2
    /\ lastrun = <<2>>
    /\ logfile # <<>>
    /\ ~logclosed
    /\ mail = <<>>
    /\ files_considered_for_backup = 1

\* ------------------------------------------------------------- run_backup
\* C20: the first step of a run sets the four counters to zero and the
\* queue to empty, whatever they were; from then on the considered counter
\* never exceeds the number of records the tool has printed in this run and
\* the loop of upload_files has gone through.
C20_RunStartsFromZero ==
    /\ [][ pc = "run" =>
              /\ pc' = "walk"
              /\ counters' = <<0, 0, 0, 0>>
              /\ files' = <<>>
          ]_vars
    /\ [](pc \in {"walk", "upload", "items", "finish", "notify"} =>
             files_considered_for_backup <= nitems - Len(items))

\* C20 witness: the run before counted one record and was ended by the
\* TypeError of the next record of the batch; the run that follows has
\* begun with the counters at zero and an empty queue.
C20_Witness ==
    /\ pc = "walk"
    /\ leftover = << <<"failed", "TypeError">>, 1 >>
    /\ counters = <<0, 0, 0, 0>>
    /\ files = <<>>
    /\ includes = cfg.includes

\* ---------------------------------------------------------- the run's report
\* C17: the quota is set once in a run, by a step taken when the work list
\* and the queue are empty and no response is being processed; the
\* notification is sent by a later step, with the quota at hand; and a run
\* that an exception ends during the walk or in a batch has queried no
\* quota and sent no notification.
C17_QuotaOnceAfterAllBatches ==
    /\ [](pc \in {"finish", "notify"} =>
             /\ includes = <<>>
             /\ files = <<>>
             /\ items = <<>>
             /\ listfile = <<>>)
    /\ [](pc = "notify" => quota # <<>>)
    /\ [](mail # <<>> => quota # <<>>)
    /\ [][ /\ quota' # quota =>
                 \/ pc = "run" /\ quota' = <<>>
                 \/ pc = "finish" /\ quota = <<>> /\ pc' = "notify" /\ mail' = <<>>
           /\ mail' # mail =>
                 \/ pc = "run" /\ mail' = <<>>
                 \/ pc = "notify" /\ mail = <<>> /\ quota' = quota
           /\ pc \in {"walk", "upload", "items"} /\ pc' = "main" =>
                 quota' = <<>> /\ mail' = <<>>
         ]_vars

\* C17 witness: a full batch and the remainder were both uploaded and
\* their two records counted before the quota was queried; the
\* notification is still to be sent.
C17_Witness ==
    /\ pc = "notify"
    /\ Len(batches) = 2
    /\ files_considered_for_backup = 2
    /\ quota # <<>>
    /\ mail = <<>>

\* The closing lines the log of the run holds.
Closings ==
    SelectSeq(logfile, LAMBDA l : l.ev \in {"finished_ok", "finished_incomplete"})

\* C18: once the notification of a run is sent, its subject is the
\* successful one exactly if the failed counter is zero; the incomplete one
\* names the values the failed and the considered counter have then; and
\* the log of the run holds one closing line, the successful one exactly if
\* the failed counter is zero.
C18_SubjectFollowsFailedCounter ==
    /\ mail # <<>> =>
          /\ mail[1].subject \in {"successful", "incomplete"}
          /\ mail[1].subject = "successful" <=> files_failed_to_backup = 0
          /\ mail[1].subject = "incomplete" =>
                /\ mail[1].failed = files_failed_to_backup
                /\ mail[1].considered = files_considered_for_backup
          /\ Len(Closings) = 1
          /\ Closings[1].ev = "finished_ok" <=> mail[1].subject = "successful"
    /\ pc = "notify" =>
          /\ Len(Closings) = 1
          /\ Closings[1].ev = "finished_ok" <=> files_failed_to_backup = 0

\* C18 witness: a run in which one of two files failed has completed and
\* sent the incomplete subject, "1 out of 2".
C18_Witness ==
    /\ pc = "main"
    /\ console = <<"completed", "">>
    /\ mail = << [subject |-> "incomplete", failed |-> 1, considered |-> 2] >>
    /\ files_backed_up_now = 1

\* ------------------------------------------------------------- the log file
\* C13 (as claimed): whenever no run is in progress the log file of the last
\* run has been closed, whether that run returned or ended by an exception.
C13_LogClosedAfterRun ==
    pc = "main" => logclosed

\* ------------------------------------------------------------ device lookup
\* C14: the process is in the scheduling loop or in a run only if the
\* listing had a device of the configured nick name, and the identifier
\* every run works with is the one built from the first such device; with
\* no such device the process has exited, and no run has left a trace.
C14_FirstMatchingDevice ==
    LET named(i) == devices[i].nick_name = "mine"
    IN /\ pc \in RunPositions \cup {"main"} =>
              \E i \in 1..Len(devices) :
                  /\ named(i)
                  /\ \A j \in 1..(i - 1) : ~named(j)
                  /\ device_id = << <<"5c0b", devices[i].device_id, "4b5z">> >>
       /\ pc = "exited" =>
              /\ \A i \in 1..Len(devices) : ~named(i)
              /\ device_id = <<>>
              /\ logfile = <<>>
              /\ lastrun \in {<<>>, <<0>>}
              /\ console = <<"none", "">>
       /\ pc # "boot" /\ (\A i \in 1..Len(devices) : ~named(i)) => pc = "exited"

\* C14 witness: two devices carry the configured nick name; the second run
\* of the process works, as the first did, with the one listed first.
C14_Witness ==
    /\ pc = "walk"
    /\ lastrun = <<2>>
    /\ devices = << [nick_name |-> "mine", device_id |-> "B"],
                    [nick_name |-> "mine", device_id |-> "A"] >>
    /\ device_id = << <<"5c0b", "B", "4b5z">> >>

====
